---------------------------- MODULE Spec2Model ----------------------------
(***************************************************************************)
(* A model of the pio-pi5 control-plane library (caldwell/pio-pi5-rs).     *)
(* Each specification drives one component; the variables of the others    *)
(* stay at their initial values.                                           *)
(*                                                                         *)
(*   SpecPool  the process-wide instance pool: threads calling             *)
(*             Rp1PIO::new and dropping the handle (src/lib.rs,            *)
(*             src/rp1pio.rs lines 12-26).                                 *)
(*   SpecSm    one DeviceHandle's state-machine claim operations against   *)
(*             the device (src/rp1pio.rs lines 60-74, 171-192, 314-318).   *)
(*   SpecProg  one call of the program loader: add_program_at_offset,      *)
(*             can_add_program_at_offset, remove_program                   *)
(*             (src/rp1pio.rs lines 100-162, 519-526).                     *)
(*   SpecClk   one conversion of a clock divisor (src/rp1pio.rs 529-548).  *)
(*   SpecCfg   one call of SmConfig::default or of a setter                *)
(*             (src/config.rs).                                            *)
(*   SpecCmd   one command with client-side checks (src/rp1pio.rs          *)
(*             lines 194-199, 225-235, 292-304, 326-333, 363-386).         *)
(*   SpecDispatch  one result code through rp1_ioctl_mut_ptr               *)
(*             (src/rp1pio.rs lines 36-48).                                *)
(***************************************************************************)
EXTENDS Integers, Naturals, Sequences, FiniteSets, TLC

VARIABLES
    in_use,     \* INSTANCES[i].in_use, the pool's flags (lib.rs:46-58)
    lock,       \* holder of the INSTANCES mutex, or NoThread
    tpc,        \* each thread's position in Rp1PIO::new / drop
    tidx,       \* each thread's `index` argument
    tres,       \* the result of each thread's current / last Rp1PIO::new
    tfd,        \* whether the thread's File (fd) is open
    topened,    \* history: File::open was attempted by the current / last call
    released,   \* history: entry i has been released at least once
    tafter,     \* history: the thread's reservation followed a release
    call,       \* the library call being made: its name and arguments
    ret,        \* what the call returned (NoRet while it is pending)
    wire,       \* the commands the call transmitted on the command channel
    dev_claimed,\* the device's set of claimed state machines
    held,       \* the caller's live StateMachine handles: index -> how many
    config,     \* the SmConfig a setter is called on (`self`)
    cfgret      \* the Result<SmConfig, Error> the setter returned

poolvars == <<in_use, lock, tpc, tidx, tres, tfd, topened, released, tafter>>

callvars == <<call, ret, wire>>
smvars == <<dev_claimed, held>>
cfgvars == <<config, cfgret>>

vars == <<poolvars, callvars, smvars, cfgvars>>

(***************************************************************************)
(* Bounds of the model.                                                    *)
(***************************************************************************)
NumThreads == 2
MaxIndex == 1
MaxMask == 17
MaxSm == 4
MaxHeld == 2
Span == 1
ClkMid == 40
ClkStride == 77773
MaxWords == 3
MaxCode == 130

(***************************************************************************)
(* Program constants.                                                      *)
(***************************************************************************)
NumInstances == 1
INSTRUCTION_COUNT == 32
SM_COUNT == 4
NEG_EREMOTEIO == -121
NEG_ETIMEDOUT == -110
AUTO == 65535
U16_MAX == 65535
MAX_DIV == 65536

Threads == 1..NumThreads
NoThread == 0
Indexes == 0..MaxIndex
PoolIndexes == 0..(NumInstances - 1)

(***************************************************************************)
(* Calls, results and commands.                                            *)
(***************************************************************************)

\* Option<T>::None for the optional arguments (origin, offset).
None == -1

NoCall == [op |-> "none", a |-> 0, b |-> 0, c |-> 0]
NoRet == [err |-> "pending", x |-> 0, y |-> 0, handles |-> <<>>]

\* Ok(v), Ok(handles) and Err(e { x, y }) of Result<_, Error> (lib.rs:93-112).
OkVal(v) == [err |-> "Ok", x |-> v, y |-> 0, handles |-> <<>>]
OkHandles(hs) == [err |-> "Ok", x |-> 0, y |-> 0, handles |-> hs]
Err(e, x, y) == [err |-> e, x |-> x, y |-> y, handles |-> <<>>]

\* A request structure handed to ioctl: opcode and two fields (ioctl.rs).
Cmd(opcode, x, y) == [cmd |-> opcode, x |-> x, y |-> y]

CallStart == call = NoCall /\ ret = NoRet /\ wire = <<>>

SmStart ==
    /\ dev_claimed = {}
    /\ held = [sm \in 0..(SM_COUNT - 1) |-> 0]

\* A u32 is the set of the positions of its set bits, so that all 32 bits
\* are kept: `SmConfig { clkdiv: 0, execctrl: 0, shiftctrl: 0, pinctrl: 0 }`.
ZeroConfig == [clkdiv |-> {}, execctrl |-> {}, shiftctrl |-> {}, pinctrl |-> {}]

\* Result<SmConfig, Error> of a setter: Ok(config), or Err(ParamErr { param })
\* / Err(BadDiv), which carry no SmConfig.
NoCfgRet == [err |-> "pending", param |-> "", cfg |-> <<>>]
OkCfg(c) == [err |-> "Ok", param |-> "", cfg |-> <<c>>]
ParamErr(param) == [err |-> "ParamErr", param |-> param, cfg |-> <<>>]

CfgStart == config = ZeroConfig /\ cfgret = NoCfgRet

(***************************************************************************)
(* InstancePool: PIOInstance::reserve and Drop for PIOInstance.            *)
(***************************************************************************)

reservations == [i \in PoolIndexes |-> FALSE]

\* Faulty variant: reserve without the in_use test.
ReserveOutcomeNoCheck(index) ==
    IF index \notin DOMAIN in_use THEN "BadPIOInstance" ELSE "Ok"

\* The three ways out of the locked block of PIOInstance::reserve.
ReserveOutcome(index) ==
    IF index \notin DOMAIN in_use THEN "BadPIOInstance"
    ELSE IF in_use[index] THEN "InstanceInUse"
    ELSE "Ok"

\* Faulty variant: a refused attempt releases the holder's reservation.
ReserveFlagsReleasing(index, outcome) ==
    IF outcome = "Ok" THEN [in_use EXCEPT ![index] = TRUE]
    ELSE IF outcome = "InstanceInUse" THEN [in_use EXCEPT ![index] = FALSE]
    ELSE in_use

\* The flags after the locked block: only the successful path writes.
ReserveFlags(index, outcome) ==
    IF outcome = "Ok" THEN [in_use EXCEPT ![index] = TRUE] ELSE in_use

\* Faulty variant: the error returns without dropping `base` (a leak).
OpenFailPcLeak == "idle"

\* Where Rp1PIO::new goes when File::open fails: the already built `base`
\* temporary is dropped (Drop for PIOInstance) before the error returns.
OpenFailPc == "drop_lock"

\* The pool before any thread has called: every entry free (lib.rs:56-65).
PoolStart ==
    /\ in_use = reservations
    /\ lock = NoThread
    /\ tpc = [t \in Threads |-> "idle"]
    /\ tidx = [t \in Threads |-> 0]
    /\ tres = [t \in Threads |-> "none"]
    /\ tfd = [t \in Threads |-> FALSE]
    /\ topened = [t \in Threads |-> FALSE]
    /\ released = [i \in PoolIndexes |-> FALSE]
    /\ tafter = [t \in Threads |-> FALSE]

\* Rp1PIO::new(index) is entered (rp1pio.rs:19-20).
NewCall(t, index) ==
    /\ tpc[t] = "idle"
    /\ tpc' = [tpc EXCEPT ![t] = "reserve_lock"]
    /\ tidx' = [tidx EXCEPT ![t] = index]
    /\ tres' = [tres EXCEPT ![t] = "pending"]
    /\ topened' = [topened EXCEPT ![t] = FALSE]
    /\ tafter' = [tafter EXCEPT ![t] = FALSE]
    /\ UNCHANGED <<in_use, lock, tfd, released>>
    /\ UNCHANGED <<callvars, smvars, cfgvars>>

\* INSTANCES.lock() in reserve (lib.rs:70).
ReserveLock(t) ==
    /\ tpc[t] = "reserve_lock"
    /\ lock = NoThread
    /\ lock' = t
    /\ tpc' = [tpc EXCEPT ![t] = "reserve_body"]
    /\ UNCHANGED <<in_use, tidx, tres, tfd, topened, released, tafter>>
    /\ UNCHANGED <<callvars, smvars, cfgvars>>

\* Faulty variant: the guard outlives the block, t keeps the lock.
ReserveGuardKept(t) == t

\* The holder of the lock once thread t's locked block in reserve has ended:
\* `instances` (the MutexGuard) is dropped at the end of the block or by the
\* early return (lib.rs:69-79).
ReserveGuardDropped(t) == NoThread

\* The locked block of reserve (lib.rs:71-79); the guard is released at the
\* end of the block or by the early return.
ReserveBody(t) ==
    /\ tpc[t] = "reserve_body"
    /\ lock = t
    /\ LET outcome == ReserveOutcome(tidx[t]) IN
        /\ in_use' = ReserveFlags(tidx[t], outcome)
        /\ lock' = ReserveGuardDropped(t)
        /\ IF outcome = "Ok"
           THEN /\ tpc' = [tpc EXCEPT ![t] = "open"]
                /\ tafter' = [tafter EXCEPT ![t] = released[tidx[t]]]
                /\ UNCHANGED tres
           ELSE /\ tpc' = [tpc EXCEPT ![t] = "idle"]
                /\ tres' = [tres EXCEPT ![t] = outcome]
                /\ UNCHANGED tafter
    /\ UNCHANGED <<tidx, tfd, topened, released>>
    /\ UNCHANGED <<callvars, smvars, cfgvars>>

\* File::open(&devname) (rp1pio.rs:23): the node opens, or the I/O error
\* leaves through `?` and the `base` temporary is dropped.
Open(t, ok) ==
    /\ tpc[t] = "open"
    /\ topened' = [topened EXCEPT ![t] = TRUE]
    /\ IF ok
       THEN /\ tfd' = [tfd EXCEPT ![t] = TRUE]
            /\ tres' = [tres EXCEPT ![t] = "Ok"]
            /\ tpc' = [tpc EXCEPT ![t] = "live"]
       ELSE /\ tres' = [tres EXCEPT ![t] = "IOError"]
            /\ tpc' = [tpc EXCEPT ![t] = OpenFailPc]
            /\ UNCHANGED tfd
    /\ UNCHANGED <<in_use, lock, tidx, released, tafter>>
    /\ UNCHANGED <<callvars, smvars, cfgvars>>

\* The Rp1PIO goes out of scope: its fields are dropped in declaration
\* order (rp1pio.rs:12-16): base first, fd last.
DropCall(t) ==
    /\ tpc[t] = "live"
    /\ tpc' = [tpc EXCEPT ![t] = "drop_lock"]
    /\ UNCHANGED <<in_use, lock, tidx, tres, tfd, topened, released, tafter>>
    /\ UNCHANGED <<callvars, smvars, cfgvars>>

\* INSTANCES.lock() in Drop for PIOInstance (lib.rs:87).
DropLock(t) ==
    /\ tpc[t] = "drop_lock"
    /\ lock = NoThread
    /\ lock' = t
    /\ tpc' = [tpc EXCEPT ![t] = "drop_body"]
    /\ UNCHANGED <<in_use, tidx, tres, tfd, topened, released, tafter>>
    /\ UNCHANGED <<callvars, smvars, cfgvars>>

\* The rest of Drop for PIOInstance (lib.rs:88-90).
DropBody(t) ==
    /\ tpc[t] = "drop_body"
    /\ lock = t
    /\ in_use' = [in_use EXCEPT ![tidx[t]] = FALSE]
    /\ released' = [released EXCEPT ![tidx[t]] = TRUE]
    /\ lock' = NoThread
    /\ tpc' = [tpc EXCEPT ![t] = IF tfd[t] THEN "close_fd" ELSE "idle"]
    /\ UNCHANGED <<tidx, tres, tfd, topened, tafter>>
    /\ UNCHANGED <<callvars, smvars, cfgvars>>

\* The OwnedFd field is dropped: the command channel closes (rp1pio.rs:15).
CloseFd(t) ==
    /\ tpc[t] = "close_fd"
    /\ tfd' = [tfd EXCEPT ![t] = FALSE]
    /\ tpc' = [tpc EXCEPT ![t] = "idle"]
    /\ UNCHANGED <<in_use, lock, tidx, tres, topened, released, tafter>>
    /\ UNCHANGED <<callvars, smvars, cfgvars>>

PoolNext ==
    \/ \E t \in Threads, index \in Indexes : NewCall(t, index)
    \/ \E t \in Threads : ReserveLock(t)
    \/ \E t \in Threads : ReserveBody(t)
    \/ \E t \in Threads, ok \in BOOLEAN : Open(t, ok)
    \/ \E t \in Threads : DropCall(t)
    \/ \E t \in Threads : DropLock(t)
    \/ \E t \in Threads : DropBody(t)
    \/ \E t \in Threads : CloseFd(t)

PoolInit == PoolStart /\ CallStart /\ SmStart /\ CfgStart

SpecPool == PoolInit /\ [][PoolNext]_vars

\* Scheduling: a thread inside Rp1PIO::new or inside a drop keeps running
\* (weak fairness of its steps), and a thread blocked in INSTANCES.lock()
\* gets the mutex if it is free again and again (strong fairness).  Calling
\* Rp1PIO::new and dropping a handle are the caller's choice: no fairness.
PoolFairness ==
    \A t \in Threads :
        /\ SF_vars(ReserveLock(t))
        /\ WF_vars(ReserveBody(t))
        /\ WF_vars(\E ok \in BOOLEAN : Open(t, ok))
        /\ SF_vars(DropLock(t))
        /\ WF_vars(DropBody(t))
        /\ WF_vars(CloseFd(t))

SpecPoolFair == PoolInit /\ [][PoolNext]_vars /\ PoolFairness

(***************************************************************************)
(* Command dispatch and the device behind the command channel.             *)
(***************************************************************************)

\* Faulty variant: the codes below -1 are taken for I/O errors too.
IoctlRetAllIo(r) ==
    IF r = NEG_EREMOTEIO THEN Err("RemoteIOErr", 0, 0)
    ELSE IF r = NEG_ETIMEDOUT THEN Err("TimedOut", 0, 0)
    ELSE IF r <= -1 THEN Err("IOError", 0, 0)
    ELSE OkVal(r)

\* rp1_ioctl_mut_ptr: the result code r of ioctl as a Result<u32, Error>.
IoctlRet(r) ==
    IF r = NEG_EREMOTEIO THEN Err("RemoteIOErr", 0, 0)
    ELSE IF r = NEG_ETIMEDOUT THEN Err("TimedOut", 0, 0)
    ELSE IF r = -1 THEN Err("IOError", 0, 0)
    ELSE IF r < -1 THEN Err("Unknown", r, 0)
    ELSE OkVal(r)

\* The device's "busy" answer to a claim it refuses.
NEG_EBUSY == -16

\* What ioctl can return without the device acting: the transport fails.
NoFault == 0
Faults == {-1}
FaultChoices == {NoFault} \cup Faults

\* Bit i of a mask, and the set of bits of a mask.
Bit(mask, i) == (mask \div (2 ^ i)) % 2 = 1
MaskBits(mask) == {i \in 0..15 : Bit(mask, i)}

Min(S) == CHOOSE m \in S : \A n \in S : m <= n

FreeSms == (0..(SM_COUNT - 1)) \ dev_claimed

\* The device's answer to a claim command: mask 0 asks for any unused
\* machine and answers its index; a claim of a claimed machine is refused.
DevClaimCode(mask) ==
    IF mask = 0
    THEN IF FreeSms = {} THEN NEG_EBUSY ELSE Min(FreeSms)
    ELSE IF MaskBits(mask) \cap dev_claimed # {} THEN NEG_EBUSY
    ELSE 0

DevClaimState(mask) ==
    IF DevClaimCode(mask) < 0 THEN dev_claimed
    ELSE IF mask = 0 THEN dev_claimed \cup {Min(FreeSms)}
    ELSE dev_claimed \cup MaskBits(mask)

(***************************************************************************)
(* DeviceHandle: state-machine claims (rp1pio.rs:60-74, 171-192, 314-318). *)
(***************************************************************************)

check_sm_param(sm) == sm < SM_COUNT

check_sm_mask(mask) == mask < 2 ^ SM_COUNT

\* The handles sm_claim_mask builds: for sm in 0..4, `match 1<<sm` keeps
\* every sm whose 1<<sm is not 0.
ClaimMaskHandles(mask) ==
    SelectSeq(<<0, 1, 2, 3>>, LAMBDA sm : 2 ^ sm # 0)

Hold(hs) ==
    [sm \in DOMAIN held |->
        held[sm] + Cardinality({k \in DOMAIN hs : hs[k] = sm})]

\* Rp1PIO::sm_claim(sm).
SmClaim(sm, fault) ==
    /\ sm \in DOMAIN held => held[sm] < MaxHeld
    /\ call' = [op |-> "sm_claim", a |-> sm, b |-> 0, c |-> 0]
    /\ IF ~check_sm_param(sm)
       THEN /\ ret' = Err("BadSM", sm, SM_COUNT)
            /\ wire' = <<>>
            /\ UNCHANGED smvars
       ELSE LET r == IF fault = NoFault THEN DevClaimCode(2 ^ sm) ELSE fault IN
            /\ wire' = <<Cmd("PIO_IOC_SM_CLAIM", 2 ^ sm, 0)>>
            /\ dev_claimed' =
                  IF fault = NoFault THEN DevClaimState(2 ^ sm) ELSE dev_claimed
            /\ IF r < 0
               THEN ret' = IoctlRet(r) /\ UNCHANGED held
               ELSE ret' = OkHandles(<<sm>>) /\ held' = Hold(<<sm>>)
    /\ UNCHANGED <<poolvars, cfgvars>>

\* Rp1PIO::sm_claim_mask(mask).
SmClaimMask(mask, fault) ==
    /\ \A sm \in DOMAIN held : held[sm] < MaxHeld
    /\ call' = [op |-> "sm_claim_mask", a |-> mask, b |-> 0, c |-> 0]
    /\ IF ~check_sm_mask(mask)
       THEN /\ ret' = Err("BadSMMask", mask, 2 ^ SM_COUNT - 1)
            /\ wire' = <<>>
            /\ UNCHANGED smvars
       ELSE LET r == IF fault = NoFault THEN DevClaimCode(mask) ELSE fault IN
            /\ wire' = <<Cmd("PIO_IOC_SM_CLAIM", mask, 0)>>
            /\ dev_claimed' =
                  IF fault = NoFault THEN DevClaimState(mask) ELSE dev_claimed
            /\ IF r < 0
               THEN ret' = IoctlRet(r) /\ UNCHANGED held
               ELSE /\ ret' = OkHandles(ClaimMaskHandles(mask))
                    /\ held' = Hold(ClaimMaskHandles(mask))
    /\ UNCHANGED <<poolvars, cfgvars>>

\* Rp1PIO::sm_claim_unused(): the handle's index is the result code.
SmClaimUnused(fault) ==
    /\ \A sm \in DOMAIN held : held[sm] < MaxHeld
    /\ call' = [op |-> "sm_claim_unused", a |-> 0, b |-> 0, c |-> 0]
    /\ LET r == IF fault = NoFault THEN DevClaimCode(0) ELSE fault IN
        /\ wire' = <<Cmd("PIO_IOC_SM_CLAIM", 0, 0)>>
        /\ dev_claimed' =
              IF fault = NoFault THEN DevClaimState(0) ELSE dev_claimed
        /\ IF r < 0
           THEN ret' = IoctlRet(r) /\ UNCHANGED held
           ELSE /\ ret' = OkHandles(<<r % 65536>>)
                /\ held' = Hold(<<r % 65536>>)
    /\ UNCHANGED <<poolvars, cfgvars>>

\* StateMachine::unclaim(self): the handle is consumed whatever the answer.
Unclaim(sm, fault) ==
    /\ sm \in DOMAIN held /\ held[sm] > 0
    /\ call' = [op |-> "unclaim", a |-> sm, b |-> 0, c |-> 0]
    /\ held' = [held EXCEPT ![sm] = @ - 1]
    /\ wire' = <<Cmd("PIO_IOC_SM_UNCLAIM", 2 ^ sm, 0)>>
    /\ dev_claimed' = IF fault = NoFault THEN dev_claimed \ {sm} ELSE dev_claimed
    /\ ret' = IF fault = NoFault THEN OkVal(0) ELSE IoctlRet(fault)
    /\ UNCHANGED <<poolvars, cfgvars>>

\* A StateMachine handle goes out of scope: the struct has no Drop, so
\* nothing is transmitted.
Forget(sm) ==
    /\ sm \in DOMAIN held /\ held[sm] > 0
    /\ call' = [op |-> "forget", a |-> sm, b |-> 0, c |-> 0]
    /\ held' = [held EXCEPT ![sm] = @ - 1]
    /\ wire' = <<>>
    /\ ret' = OkVal(0)
    /\ UNCHANGED dev_claimed
    /\ UNCHANGED <<poolvars, cfgvars>>

SmInit == PoolStart /\ CallStart /\ SmStart /\ CfgStart

SmNext ==
    \/ \E sm \in 0..MaxSm, fault \in FaultChoices : SmClaim(sm, fault)
    \/ \E mask \in 0..MaxMask, fault \in FaultChoices : SmClaimMask(mask, fault)
    \/ \E fault \in FaultChoices : SmClaimUnused(fault)
    \/ \E sm \in 0..(SM_COUNT - 1), fault \in FaultChoices : Unclaim(sm, fault)
    \/ \E sm \in 0..(SM_COUNT - 1) : Forget(sm)

SpecSm == SmInit /\ [][SmNext]_vars

(***************************************************************************)
(* ProgramLoader (rp1pio.rs:100-162, 519-526).                             *)
(***************************************************************************)

\* Rust's `as` casts between integer types: truncate, then reinterpret.
AsU8(v) == v % 256
AsU16(v) == v % 65536
AsI8(v) == IF v % 256 >= 128 THEN (v % 256) - 256 ELSE v % 256

\* PioProgram::new(instructions, origin): the program as (length, origin: i8).
PioProgram_new(len, origin) ==
    [len |-> len, origin |-> IF origin = None THEN -1 ELSE AsI8(origin)]

\* The `match (program.origin, offset)` of add_program_args: the resolved
\* offset, or Mismatch.
Mismatch == -2
ResolveOffset(program, offset) ==
    IF program.origin < 0 /\ offset = None THEN AUTO
    ELSE IF program.origin < 0 THEN AsU16(offset)
    ELSE IF offset = None THEN AsU16(program.origin)
    ELSE IF program.origin = AsI8(offset) THEN AsU16(program.origin)
    ELSE Mismatch

\* Faulty variant: the last instruction slot is never usable.
FitsFromOffByOne(offset, len) == offset + len < INSTRUCTION_COUNT

\* Whether `len` instructions fit in what is left from `offset` (line 116).
FitsFrom(offset, len) == offset + len <= INSTRUCTION_COUNT

\* add_program_args: the typed error, or the AddProgramArgs
\* {num_instrs (x), origin (y)}.
add_program_args(program, offset) ==
    LET off == ResolveOffset(program, offset) IN
    IF off = Mismatch
    THEN Err("OffsetOriginMismatch", AsU8(program.origin), offset)
    ELSE IF off # AUTO /\ off >= INSTRUCTION_COUNT
    THEN Err("OffsetTooLarge", off, INSTRUCTION_COUNT)
    ELSE IF program.len >= INSTRUCTION_COUNT
    THEN Err("TooManyInstructions", program.len, INSTRUCTION_COUNT)
    ELSE IF off # AUTO /\ ~FitsFrom(off, program.len)
    THEN Err("TooManyInstructions", program.len, INSTRUCTION_COUNT - off)
    ELSE [err |-> "Ok", x |-> AsU16(program.len), y |-> off, handles |-> <<>>]

\* The call under way: op(program of length a and origin b, offset c).
Pending(op) == call.op = op /\ ret = NoRet
TheProgram == PioProgram_new(call.a, call.b)

\* Rp1PIO::add_program_at_offset (add_program is the offset = None case).
AddProgramAtOffset(r) ==
    /\ Pending("add_program_at_offset")
    /\ LET args == add_program_args(TheProgram, call.c) IN
        IF args.err # "Ok"
        THEN ret' = args /\ wire' = <<>>
        ELSE /\ wire' = <<Cmd("PIO_IOC_ADD_PROGRAM", args.x, args.y)>>
             /\ ret' = IF r < 0 THEN IoctlRet(r) ELSE OkVal(AsU16(r))
    /\ UNCHANGED <<call, poolvars, smvars, cfgvars>>

\* Rp1PIO::can_add_program_at_offset (can_add_program: offset = None).
CanAddProgramAtOffset(r) ==
    /\ Pending("can_add_program_at_offset")
    /\ LET args == add_program_args(TheProgram, call.c) IN
        IF args.err # "Ok"
        THEN ret' = args /\ wire' = <<>>
        ELSE /\ wire' = <<Cmd("PIO_IOC_CAN_ADD_PROGRAM", args.x, args.y)>>
             /\ ret' = IF r < 0 THEN IoctlRet(r)
                       ELSE OkVal(IF r > 0 THEN 1 ELSE 0)
    /\ UNCHANGED <<call, poolvars, smvars, cfgvars>>

\* Rp1PIO::remove_program.  `INSTRUCTION_COUNT - args.origin` is a u16
\* subtraction: when origin > INSTRUCTION_COUNT it panics in a build with
\* overflow checks and wraps in a build without.
RemoveProgram(r, overflow_checks) ==
    /\ Pending("remove_program")
    /\ LET len == call.a
           origin == IF call.c = None THEN AUTO ELSE call.c
       IN
        IF len >= INSTRUCTION_COUNT
        THEN /\ ret' = Err("TooManyInstructions", len, INSTRUCTION_COUNT)
             /\ wire' = <<>>
        ELSE IF origin # AUTO /\ origin + len > INSTRUCTION_COUNT
        THEN /\ ret' = IF origin > INSTRUCTION_COUNT /\ overflow_checks
                       THEN Err("panic", 0, 0)
                       ELSE Err("TooManyInstructions", len,
                                AsU16(INSTRUCTION_COUNT - origin))
             /\ wire' = <<>>
        ELSE /\ wire' = <<Cmd("PIO_IOC_REMOVE_PROGRAM", AsU16(len), origin)>>
             /\ ret' = IF r < 0 THEN IoctlRet(r)
                       ELSE OkVal(IF r # 0 THEN 1 ELSE 0)
    /\ UNCHANGED <<call, poolvars, smvars, cfgvars>>

\* The inputs: values around the boundaries of each argument's range.
Window(c) == (c - Span)..(c + Span)
Lengths == 0..(INSTRUCTION_COUNT + Span)
Origins ==
    {None} \cup
    ((Window(0) \cup Window(INSTRUCTION_COUNT) \cup Window(128) \cup Window(255))
        \cap (0..255))
Offsets ==
    {None} \cup (0..(INSTRUCTION_COUNT + Span))
           \cup {o + 256 : o \in (Origins \ {None}) \cap (0..127)}
           \cup ((AUTO - Span)..AUTO)
ProgOps ==
    {"add_program_at_offset", "can_add_program_at_offset", "remove_program"}
ProgReplies == {-1, 0, 1}

ProgInit ==
    /\ PoolStart /\ SmStart /\ CfgStart
    /\ call \in [op : ProgOps, a : Lengths, b : Origins, c : Offsets]
    /\ ret = NoRet
    /\ wire = <<>>

ProgNext ==
    \/ \E r \in ProgReplies : AddProgramAtOffset(r)
    \/ \E r \in ProgReplies : CanAddProgramAtOffset(r)
    \/ \E r \in ProgReplies, oc \in BOOLEAN : RemoveProgram(r, oc)

SpecProg == ProgInit /\ [][ProgNext]_vars

(***************************************************************************)
(* ClockDivider: impl TryFrom<f64> for ClkDiv (rp1pio.rs:529-548).         *)
(* A divisor is a count of ClkUnit-ths, twice as fine as the 1/256 of the  *)
(* result, so that the conversion has something to truncate; f64 holds     *)
(* these values, their fractions and the products by 256 exactly.          *)
(***************************************************************************)
ClkUnit == 2 * 256

\* `div as u16`: truncates toward zero and saturates at u16::MAX.
F64AsU16(d) ==
    IF d \div ClkUnit > U16_MAX THEN U16_MAX ELSE d \div ClkUnit

\* `(div.fract() * 256_f64) as u8`.
FractTimes256AsU8(d) ==
    LET v == ((d % ClkUnit) * 256) \div ClkUnit IN
    IF v > 255 THEN 255 ELSE v

try_from(d) ==
    IF d # 0 /\ (d < 1 * ClkUnit \/ d > MAX_DIV * ClkUnit)
    THEN Err("BadDiv", d, 0)
    ELSE IF F64AsU16(d) = 0
    THEN [err |-> "Ok", x |-> 0, y |-> 0, handles |-> <<>>]
    ELSE [err |-> "Ok", x |-> F64AsU16(d), y |-> FractTimes256AsU8(d),
          handles |-> <<>>]

\* ClkDiv::try_from(div), div = call.a / ClkUnit.
TryFrom ==
    /\ Pending("ClkDiv::try_from")
    /\ ret' = try_from(call.a)
    /\ wire' = <<>>
    /\ UNCHANGED <<call, poolvars, smvars, cfgvars>>

\* The inputs: everything up to just above 1.0, values spread over the
\* range, and the neighbourhoods of 65535.0 and 65536.0.
ClkSamples ==
    (0..(ClkUnit + Span))
        \cup {i * ClkStride : i \in 1..ClkMid}
        \cup ((U16_MAX * ClkUnit - Span)..(U16_MAX * ClkUnit + Span))
        \cup ((MAX_DIV * ClkUnit - Span)..(MAX_DIV * ClkUnit + Span))

ClkInit ==
    /\ PoolStart /\ SmStart /\ CfgStart
    /\ call \in [op : {"ClkDiv::try_from"}, a : ClkSamples, b : {0}, c : {0}]
    /\ ret = NoRet
    /\ wire = <<>>

ClkNext == TryFrom

SpecClk == ClkInit /\ [][ClkNext]_vars

(***************************************************************************)
(* ConfigRegisterSet: SmConfig and its setters (config.rs).                *)
(* A u32 word is the set of the positions of its set bits: & is \cap,      *)
(* | is \cup, & !m is \ m, and << moves every position up.                 *)
(***************************************************************************)
GPIO_COUNT == 28

U32Bits == 0..31

\* The u32 with value v (v < 2^31).
ToU32(v) == {i \in 0..30 : (v \div (2 ^ i)) % 2 = 1}

\* `w << n` on u32 (n < 32): the bits moved past bit 31 are lost.
Shl(w, n) == {i + n : i \in w} \cap U32Bits

\* The register layout of module proc_pio (PROC_PIO_SM0_<field>_LSB and
\* _BITS): each field as <<lsb, width>>; the fields of a word are disjoint.
proc_pio ==
    [CLKDIV_FRAC |-> <<8, 8>>, CLKDIV_INT |-> <<16, 16>>,
     EXECCTRL_STATUS_N |-> <<0, 4>>, EXECCTRL_STATUS_SEL |-> <<4, 1>>,
     EXECCTRL_WRAP_BOTTOM |-> <<7, 5>>, EXECCTRL_WRAP_TOP |-> <<12, 5>>,
     EXECCTRL_OUT_STICKY |-> <<17, 1>>, EXECCTRL_INLINE_OUT_EN |-> <<18, 1>>,
     EXECCTRL_OUT_EN_SEL |-> <<19, 5>>, EXECCTRL_JMP_PIN |-> <<24, 5>>,
     EXECCTRL_SIDE_PINDIR |-> <<29, 1>>, EXECCTRL_SIDE_EN |-> <<30, 1>>,
     SHIFTCTRL_AUTOPUSH |-> <<16, 1>>, SHIFTCTRL_AUTOPULL |-> <<17, 1>>,
     SHIFTCTRL_IN_SHIFTDIR |-> <<18, 1>>, SHIFTCTRL_OUT_SHIFTDIR |-> <<19, 1>>,
     SHIFTCTRL_PUSH_THRESH |-> <<20, 5>>, SHIFTCTRL_PULL_THRESH |-> <<25, 5>>,
     SHIFTCTRL_FJOIN_TX |-> <<30, 1>>, SHIFTCTRL_FJOIN_RX |-> <<31, 1>>,
     PINCTRL_OUT_BASE |-> <<0, 5>>, PINCTRL_SET_BASE |-> <<5, 5>>,
     PINCTRL_SIDESET_BASE |-> <<10, 5>>, PINCTRL_IN_BASE |-> <<15, 5>>,
     PINCTRL_OUT_COUNT |-> <<20, 6>>, PINCTRL_SET_COUNT |-> <<26, 3>>,
     PINCTRL_SIDESET_COUNT |-> <<29, 3>>]

LSB(field) == proc_pio[field][1]
BITS(field) ==
    {i \in U32Bits : i >= LSB(field) /\ i < LSB(field) + proc_pio[field][2]}

bool_to_u32(b) == IF b THEN {0} ELSE {}

set_out_pins(self, out_base, out_count) ==
    IF ~(out_base < GPIO_COUNT) THEN ParamErr("out_base")
    ELSE IF ~(out_base < GPIO_COUNT) THEN ParamErr("out_base")
    ELSE OkCfg([self EXCEPT !.pinctrl =
            (@ \ (BITS("PINCTRL_OUT_BASE") \cup BITS("PINCTRL_OUT_COUNT")))
                \cup Shl(ToU32(out_base), LSB("PINCTRL_OUT_BASE"))
                \cup Shl(ToU32(out_count), LSB("PINCTRL_OUT_COUNT"))])

set_set_pins(self, set_base, set_count) ==
    IF ~(set_base < GPIO_COUNT) THEN ParamErr("set_base")
    ELSE IF ~(set_count <= 5) THEN ParamErr("set_count")
    ELSE OkCfg([self EXCEPT !.pinctrl =
            (@ \ (BITS("PINCTRL_SET_BASE") \cup BITS("PINCTRL_SET_COUNT")))
                \cup Shl(ToU32(set_base), LSB("PINCTRL_SET_BASE"))
                \cup Shl(ToU32(set_count), LSB("PINCTRL_SET_COUNT"))])

set_in_pins(self, in_base) ==
    IF ~(in_base < GPIO_COUNT) THEN ParamErr("in_base")
    ELSE OkCfg([self EXCEPT !.pinctrl =
            (@ \ BITS("PINCTRL_IN_BASE"))
                \cup Shl(ToU32(in_base), LSB("PINCTRL_IN_BASE"))])

set_sideset_pins(self, sideset_base) ==
    IF ~(sideset_base < GPIO_COUNT) THEN ParamErr("sideset_base")
    ELSE OkCfg([self EXCEPT !.pinctrl =
            (@ \ BITS("PINCTRL_SIDESET_BASE"))
                \cup Shl(ToU32(sideset_base), LSB("PINCTRL_SIDESET_BASE"))])

set_sideset(self, bit_count, optional, pindirs) ==
    IF ~(bit_count <= 5) THEN ParamErr("bit_count")
    ELSE IF ~(~optional \/ bit_count >= 1) THEN ParamErr("option,bit_count")
    ELSE OkCfg([self EXCEPT
            !.pinctrl =
                (@ \ BITS("PINCTRL_SIDESET_COUNT"))
                    \cup Shl(ToU32(bit_count), LSB("PINCTRL_SIDESET_COUNT")),
            !.execctrl =
                (@ \ (BITS("EXECCTRL_SIDE_EN") \cup BITS("EXECCTRL_SIDE_PINDIR")))
                    \cup Shl(bool_to_u32(optional), LSB("EXECCTRL_SIDE_EN"))
                    \cup Shl(bool_to_u32(pindirs), LSB("EXECCTRL_SIDE_PINDIR"))])

\* div is a ClkDiv { div: u16, frac: u8 }.
set_clkdiv_int_frac(self, div, frac) ==
    OkCfg([self EXCEPT !.clkdiv =
            Shl(ToU32(frac), LSB("CLKDIV_FRAC"))
                \cup Shl(ToU32(div), LSB("CLKDIV_INT"))])

\* div is an f64 in ClkUnit-ths; `?` returns the BadDiv of try_into.
set_clkdiv(self, div) ==
    LET r == try_from(div) IN
    IF r.err # "Ok" THEN [err |-> r.err, param |-> "", cfg |-> <<>>]
    ELSE set_clkdiv_int_frac(self, r.x, r.y)

set_wrap(self, wrap_target, wrap) ==
    IF ~(wrap < INSTRUCTION_COUNT) THEN ParamErr("wrap")
    ELSE IF ~(wrap_target < INSTRUCTION_COUNT) THEN ParamErr("wrap_target")
    ELSE OkCfg([self EXCEPT !.execctrl =
            (@ \ (BITS("EXECCTRL_WRAP_TOP") \cup BITS("EXECCTRL_WRAP_BOTTOM")))
                \cup Shl(ToU32(wrap_target), LSB("EXECCTRL_WRAP_BOTTOM"))
                \cup Shl(ToU32(wrap), LSB("EXECCTRL_WRAP_TOP"))])

\* Faulty variant: pin may equal GPIO_COUNT.
set_jmp_pin_le(self, pin) ==
    IF ~(pin <= GPIO_COUNT) THEN ParamErr("pin")
    ELSE OkCfg([self EXCEPT !.execctrl =
            (@ \ BITS("EXECCTRL_JMP_PIN"))
                \cup Shl(ToU32(pin), LSB("EXECCTRL_JMP_PIN"))])

set_jmp_pin(self, pin) ==
    IF ~(pin < GPIO_COUNT) THEN ParamErr("pin")
    ELSE OkCfg([self EXCEPT !.execctrl =
            (@ \ BITS("EXECCTRL_JMP_PIN"))
                \cup Shl(ToU32(pin), LSB("EXECCTRL_JMP_PIN"))])

\* Faulty variant: the threshold is not reduced to 5 bits.
set_in_shift_nomask(self, shift_right, autopush, push_threshold) ==
    IF ~(push_threshold <= 32) THEN ParamErr("push_threshold")
    ELSE OkCfg([self EXCEPT !.shiftctrl =
            (@ \ (BITS("SHIFTCTRL_IN_SHIFTDIR") \cup BITS("SHIFTCTRL_AUTOPUSH")
                    \cup BITS("SHIFTCTRL_PUSH_THRESH")))
                \cup Shl(bool_to_u32(shift_right), LSB("SHIFTCTRL_IN_SHIFTDIR"))
                \cup Shl(bool_to_u32(autopush), LSB("SHIFTCTRL_AUTOPUSH"))
                \cup Shl(ToU32(push_threshold), LSB("SHIFTCTRL_PUSH_THRESH"))])

set_in_shift(self, shift_right, autopush, push_threshold) ==
    IF ~(push_threshold <= 32) THEN ParamErr("push_threshold")
    ELSE OkCfg([self EXCEPT !.shiftctrl =
            (@ \ (BITS("SHIFTCTRL_IN_SHIFTDIR") \cup BITS("SHIFTCTRL_AUTOPUSH")
                    \cup BITS("SHIFTCTRL_PUSH_THRESH")))
                \cup Shl(bool_to_u32(shift_right), LSB("SHIFTCTRL_IN_SHIFTDIR"))
                \cup Shl(bool_to_u32(autopush), LSB("SHIFTCTRL_AUTOPUSH"))
                \cup Shl(ToU32(push_threshold) \cap ToU32(31),
                         LSB("SHIFTCTRL_PUSH_THRESH"))])

set_out_shift(self, shift_right, autopull, pull_threshold) ==
    IF ~(pull_threshold <= 32) THEN ParamErr("pull_threshold")
    ELSE OkCfg([self EXCEPT !.shiftctrl =
            (@ \ (BITS("SHIFTCTRL_OUT_SHIFTDIR") \cup BITS("SHIFTCTRL_AUTOPULL")
                    \cup BITS("SHIFTCTRL_PULL_THRESH")))
                \cup Shl(bool_to_u32(shift_right), LSB("SHIFTCTRL_OUT_SHIFTDIR"))
                \cup Shl(bool_to_u32(autopull), LSB("SHIFTCTRL_AUTOPULL"))
                \cup Shl(ToU32(pull_threshold) \cap ToU32(31),
                         LSB("SHIFTCTRL_PULL_THRESH"))])

\* join is a PioFifoJoin as u32: None = 0, Tx = 1, Rx = 2.
set_fifo_join(self, join) ==
    OkCfg([self EXCEPT !.shiftctrl =
            (@ \ (BITS("SHIFTCTRL_FJOIN_TX") \cup BITS("SHIFTCTRL_FJOIN_RX")))
                \cup Shl(ToU32(join), LSB("SHIFTCTRL_FJOIN_TX"))])

set_out_special(self, sticky, has_enable_pin, enable_pin_index) ==
    OkCfg([self EXCEPT !.execctrl =
            (@ \ (BITS("EXECCTRL_OUT_STICKY") \cup BITS("EXECCTRL_INLINE_OUT_EN")
                    \cup BITS("EXECCTRL_OUT_EN_SEL")))
                \cup Shl(bool_to_u32(sticky), LSB("EXECCTRL_OUT_STICKY"))
                \cup Shl(bool_to_u32(has_enable_pin),
                         LSB("EXECCTRL_INLINE_OUT_EN"))
                \cup (Shl(ToU32(enable_pin_index), LSB("EXECCTRL_OUT_EN_SEL"))
                        \cap BITS("EXECCTRL_OUT_EN_SEL"))])

\* status_sel is a PioMovStatus as u32: TxLessThan = 0, RxLessThan = 1.
set_mov_status(self, status_sel, status_n) ==
    OkCfg([self EXCEPT !.execctrl =
            (@ \ (BITS("EXECCTRL_STATUS_SEL") \cup BITS("EXECCTRL_STATUS_N")))
                \cup (Shl(ToU32(status_sel), LSB("EXECCTRL_STATUS_SEL"))
                        \cap BITS("EXECCTRL_STATUS_SEL"))
                \cup (Shl(ToU32(status_n), LSB("EXECCTRL_STATUS_N"))
                        \cap BITS("EXECCTRL_STATUS_N"))])

\* Result::unwrap of an Ok.
Unwrap(r) == r.cfg[1]

\* Faulty variant: the default turns autopush and autopull on.
SmConfig_default_auto ==
    Unwrap(set_out_shift(
        Unwrap(set_in_shift(
            Unwrap(set_wrap(
                Unwrap(set_clkdiv(ZeroConfig, 1 * ClkUnit)),
                0, 31)),
            TRUE, TRUE, 32)),
        TRUE, TRUE, 32))

\* impl Default for SmConfig.
SmConfig_default ==
    Unwrap(set_out_shift(
        Unwrap(set_in_shift(
            Unwrap(set_wrap(
                Unwrap(set_clkdiv(ZeroConfig, 1 * ClkUnit)),
                0, 31)),
            TRUE, FALSE, 32)),
        TRUE, FALSE, 32))

\* The setter a call names, applied to c.
Apply(c, k) ==
    CASE k.op = "default" -> OkCfg(SmConfig_default)
      [] k.op = "set_out_pins" -> set_out_pins(c, k.a, k.b)
      [] k.op = "set_set_pins" -> set_set_pins(c, k.a, k.b)
      [] k.op = "set_in_pins" -> set_in_pins(c, k.a)
      [] k.op = "set_sideset_pins" -> set_sideset_pins(c, k.a)
      [] k.op = "set_sideset" -> set_sideset(c, k.a, k.b = 1, k.c = 1)
      [] k.op = "set_clkdiv_int_frac" -> set_clkdiv_int_frac(c, k.a, k.b)
      [] k.op = "set_clkdiv" -> set_clkdiv(c, k.a)
      [] k.op = "set_wrap" -> set_wrap(c, k.a, k.b)
      [] k.op = "set_jmp_pin" -> set_jmp_pin(c, k.a)
      [] k.op = "set_in_shift" -> set_in_shift(c, k.a = 1, k.b = 1, k.c)
      [] k.op = "set_out_shift" -> set_out_shift(c, k.a = 1, k.b = 1, k.c)
      [] k.op = "set_fifo_join" -> set_fifo_join(c, k.a)
      [] k.op = "set_out_special" -> set_out_special(c, k.a = 1, k.b = 1, k.c)
      [] k.op = "set_mov_status" -> set_mov_status(c, k.a, k.b)

\* A chain of setter calls, each unwrapped.
RECURSIVE ApplyAll(_, _)
ApplyAll(c, ks) ==
    IF ks = <<>> THEN c ELSE ApplyAll(Unwrap(Apply(c, Head(ks))), Tail(ks))

CfgPending(op) == call.op = op /\ cfgret = NoCfgRet

\* One call of each method on `config`; SmConfig is Copy, so the caller
\* still has the value the method was called on.
Default ==
    /\ CfgPending("default")
    /\ cfgret' = OkCfg(SmConfig_default)
    /\ UNCHANGED <<config, callvars, poolvars, smvars>>

SetOutPins ==
    /\ CfgPending("set_out_pins")
    /\ cfgret' = set_out_pins(config, call.a, call.b)
    /\ UNCHANGED <<config, callvars, poolvars, smvars>>

SetSetPins ==
    /\ CfgPending("set_set_pins")
    /\ cfgret' = set_set_pins(config, call.a, call.b)
    /\ UNCHANGED <<config, callvars, poolvars, smvars>>

SetInPins ==
    /\ CfgPending("set_in_pins")
    /\ cfgret' = set_in_pins(config, call.a)
    /\ UNCHANGED <<config, callvars, poolvars, smvars>>

SetSidesetPins ==
    /\ CfgPending("set_sideset_pins")
    /\ cfgret' = set_sideset_pins(config, call.a)
    /\ UNCHANGED <<config, callvars, poolvars, smvars>>

SetSideset ==
    /\ CfgPending("set_sideset")
    /\ cfgret' = set_sideset(config, call.a, call.b = 1, call.c = 1)
    /\ UNCHANGED <<config, callvars, poolvars, smvars>>

SetClkdivIntFrac ==
    /\ CfgPending("set_clkdiv_int_frac")
    /\ cfgret' = set_clkdiv_int_frac(config, call.a, call.b)
    /\ UNCHANGED <<config, callvars, poolvars, smvars>>

SetClkdiv ==
    /\ CfgPending("set_clkdiv")
    /\ cfgret' = set_clkdiv(config, call.a)
    /\ UNCHANGED <<config, callvars, poolvars, smvars>>

SetWrap ==
    /\ CfgPending("set_wrap")
    /\ cfgret' = set_wrap(config, call.a, call.b)
    /\ UNCHANGED <<config, callvars, poolvars, smvars>>

SetJmpPin ==
    /\ CfgPending("set_jmp_pin")
    /\ cfgret' = set_jmp_pin(config, call.a)
    /\ UNCHANGED <<config, callvars, poolvars, smvars>>

SetInShift ==
    /\ CfgPending("set_in_shift")
    /\ cfgret' = set_in_shift(config, call.a = 1, call.b = 1, call.c)
    /\ UNCHANGED <<config, callvars, poolvars, smvars>>

SetOutShift ==
    /\ CfgPending("set_out_shift")
    /\ cfgret' = set_out_shift(config, call.a = 1, call.b = 1, call.c)
    /\ UNCHANGED <<config, callvars, poolvars, smvars>>

SetFifoJoin ==
    /\ CfgPending("set_fifo_join")
    /\ cfgret' = set_fifo_join(config, call.a)
    /\ UNCHANGED <<config, callvars, poolvars, smvars>>

SetOutSpecial ==
    /\ CfgPending("set_out_special")
    /\ cfgret' = set_out_special(config, call.a = 1, call.b = 1, call.c)
    /\ UNCHANGED <<config, callvars, poolvars, smvars>>

SetMovStatus ==
    /\ CfgPending("set_mov_status")
    /\ cfgret' = set_mov_status(config, call.a, call.b)
    /\ UNCHANGED <<config, callvars, poolvars, smvars>>

\* The inputs: 0 and the neighbourhood of each argument's limit (for an
\* unchecked argument, of the first value its field cannot hold).
Around(n) == {0} \cup Window(n)

\* A bool argument travels in a call as 0 / 1.
Bools == {0, 1}

CfgCall(op, A, B, C) == [op : {op}, a : A, b : B, c : C]

CfgCalls ==
    CfgCall("default", {0}, {0}, {0})
    \cup CfgCall("set_out_pins", Around(GPIO_COUNT), Around(32) \cup Window(64), {0})
    \cup CfgCall("set_set_pins", Around(GPIO_COUNT), Around(5), {0})
    \cup CfgCall("set_in_pins", Around(GPIO_COUNT), {0}, {0})
    \cup CfgCall("set_sideset_pins", Around(GPIO_COUNT), {0}, {0})
    \cup CfgCall("set_sideset", {0, 1} \cup Window(5), Bools, Bools)
    \cup CfgCall("set_clkdiv_int_frac", {0, 1, U16_MAX}, {0, 255}, {0})
    \cup CfgCall("set_clkdiv", Around(ClkUnit) \cup {MAX_DIV * ClkUnit}, {0}, {0})
    \cup CfgCall("set_wrap", Around(INSTRUCTION_COUNT), Around(INSTRUCTION_COUNT), {0})
    \cup CfgCall("set_jmp_pin", Around(GPIO_COUNT), {0}, {0})
    \cup CfgCall("set_in_shift", Bools, Bools, Around(32))
    \cup CfgCall("set_out_shift", Bools, Bools, Around(32))
    \cup CfgCall("set_fifo_join", {0, 1, 2}, {0}, {0})
    \cup CfgCall("set_out_special", Bools, Bools, Around(32))
    \cup CfgCall("set_mov_status", {0, 1}, Around(16), {0})

\* A register set with every field populated, built by the setters.
FullConfig ==
    ApplyAll(SmConfig_default,
        <<[op |-> "set_out_pins", a |-> 27, b |-> 63, c |-> 0],
          [op |-> "set_set_pins", a |-> 27, b |-> 5, c |-> 0],
          [op |-> "set_in_pins", a |-> 27, b |-> 0, c |-> 0],
          [op |-> "set_sideset_pins", a |-> 27, b |-> 0, c |-> 0],
          [op |-> "set_sideset", a |-> 5, b |-> 1, c |-> 1],
          [op |-> "set_clkdiv_int_frac", a |-> U16_MAX, b |-> 255, c |-> 0],
          [op |-> "set_wrap", a |-> 31, b |-> 31, c |-> 0],
          [op |-> "set_jmp_pin", a |-> 27, b |-> 0, c |-> 0],
          [op |-> "set_in_shift", a |-> 1, b |-> 1, c |-> 31],
          [op |-> "set_out_shift", a |-> 1, b |-> 1, c |-> 31],
          [op |-> "set_fifo_join", a |-> 2, b |-> 0, c |-> 0],
          [op |-> "set_out_special", a |-> 1, b |-> 1, c |-> 31],
          [op |-> "set_mov_status", a |-> 1, b |-> 15, c |-> 0]>>)

\* The register sets a setter is called on: the default, the full one, and
\* every result of one setter call on the default.
CfgSamples ==
    {SmConfig_default, FullConfig}
        \cup {Unwrap(Apply(SmConfig_default, k)) :
                k \in {j \in CfgCalls : Apply(SmConfig_default, j).err = "Ok"}}

CfgInit ==
    /\ PoolStart /\ SmStart
    /\ call \in CfgCalls
    /\ config \in CfgSamples
    /\ cfgret = NoCfgRet
    /\ ret = NoRet
    /\ wire = <<>>

CfgNext ==
    \/ Default
    \/ SetOutPins
    \/ SetSetPins
    \/ SetInPins
    \/ SetSidesetPins
    \/ SetSideset
    \/ SetClkdivIntFrac
    \/ SetClkdiv
    \/ SetWrap
    \/ SetJmpPin
    \/ SetInShift
    \/ SetOutShift
    \/ SetFifoJoin
    \/ SetOutSpecial
    \/ SetMovStatus

SpecCfg == CfgInit /\ [][CfgNext]_vars

(***************************************************************************)
(* Commands with client-side checks: StateMachine::init, set_pins,         *)
(* set_pins_with_mask, set_pindirs_with_mask, Rp1PIO::sm_set_enabled_mask, *)
(* gpio_init, read_hw and write_hw (rp1pio.rs:194-199, 225-235, 292-304,   *)
(* 326-333, 363-386).  One call is made and the device answers r.          *)
(***************************************************************************)
GPIOS_MASK == 0..(GPIO_COUNT - 1)

\* The range of i32 (result codes) and a large argument value.
I32_MIN == -2147483647 - 1
I32_MAX == 2147483647

\* The fixed base read_hw / write_hw OR into addr: 0xf000_0000.
HW_BASE == 28..31

\* `.map(|_| ())`: the value of an Ok is dropped.
MapUnit(res) == IF res.err = "Ok" THEN OkVal(0) ELSE res

\* The outcome of a call: its Result and what it transmitted.
Outcome(res, sent) == [ret |-> res, wire |-> sent]

check_gpio(gpio) == gpio < GPIO_COUNT

StateMachine_init(index, initial_pc, r) ==
    IF initial_pc >= INSTRUCTION_COUNT
    THEN Outcome(Err("BadPC", initial_pc, INSTRUCTION_COUNT), <<>>)
    ELSE Outcome(MapUnit(IoctlRet(r)),
                 <<Cmd("PIO_IOC_SM_INIT", index, initial_pc)>>)

set_pins_with_mask(index, pin_values, pin_mask, r) ==
    Outcome(MapUnit(IoctlRet(r)),
            <<Cmd("PIO_IOC_SM_SET_PINS", index, <<pin_values, pin_mask>>)>>)

set_pins(index, pin_values, r) ==
    set_pins_with_mask(index, pin_values, GPIOS_MASK, r)

\* Faulty variant: both errors report the out-of-range bits of pin_mask.
set_pindirs_with_mask_maskbits(index, pin_dirs, pin_mask, r) ==
    IF pin_dirs \cap GPIOS_MASK # pin_dirs
    THEN Outcome(Err("BadPinDirs", pin_mask \ GPIOS_MASK, 0), <<>>)
    ELSE IF pin_mask \cap GPIOS_MASK # pin_mask
    THEN Outcome(Err("BadPinMask", pin_mask \ GPIOS_MASK, 0), <<>>)
    ELSE Outcome(MapUnit(IoctlRet(r)),
                 <<Cmd("PIO_IOC_SM_SET_PINDIRS", index, <<pin_dirs, pin_mask>>)>>)

set_pindirs_with_mask(index, pin_dirs, pin_mask, r) ==
    IF pin_dirs \cap GPIOS_MASK # pin_dirs
    THEN Outcome(Err("BadPinDirs", pin_dirs \ GPIOS_MASK, 0), <<>>)
    ELSE IF pin_mask \cap GPIOS_MASK # pin_mask
    THEN Outcome(Err("BadPinMask", pin_mask \ GPIOS_MASK, 0), <<>>)
    ELSE Outcome(MapUnit(IoctlRet(r)),
                 <<Cmd("PIO_IOC_SM_SET_PINDIRS", index, <<pin_dirs, pin_mask>>)>>)

\* `w - 1` on u32, w # 0: the lowest set bit is cleared and every bit below
\* it is set.
SubOne(w) == (w \ {Min(w)}) \cup (0..(Min(w) - 1))

\* A shift by 32 or more overflows: with overflow checks the call panics,
\* without them the shift amount wraps to its low 5 bits.  1 << n is never
\* 0, so the subtraction cannot overflow.
set_consecutive_pindirs(index, pin_base, pin_count, is_out, r, overflow_checks) ==
    IF overflow_checks /\ (pin_count >= 32 \/ pin_base >= 32)
    THEN Outcome(Err("panic", 0, 0), <<>>)
    ELSE LET mask == Shl(SubOne(Shl({0}, pin_count % 32)), pin_base % 32) IN
         set_pindirs_with_mask(index, IF is_out THEN mask ELSE {}, mask, r)

sm_set_enabled_mask(mask, enabled, r) ==
    IF ~check_sm_mask(mask)
    THEN Outcome(Err("BadSMMask", mask, 2 ^ SM_COUNT - 1), <<>>)
    ELSE Outcome(MapUnit(IoctlRet(r)),
                 <<Cmd("PIO_IOC_SM_SET_ENABLED", mask, enabled)>>)

gpio_init(gpio, r) ==
    IF ~check_gpio(gpio)
    THEN Outcome(Err("BadGPIO", gpio, GPIO_COUNT), <<>>)
    ELSE Outcome(MapUnit(IoctlRet(r)), <<Cmd("PIO_IOC_GPIO_INIT", gpio, 0)>>)

\* data is a slice of data_len u32 words; size_of::<u32>() is 4.
read_hw(addr, data_len, r) ==
    Outcome(IoctlRet(r),
            <<Cmd("PIO_IOC_READ_HW", HW_BASE \cup addr, data_len * 4)>>)

write_hw(addr, data_len, r) ==
    Outcome(IoctlRet(r),
            <<Cmd("PIO_IOC_WRITE_HW", HW_BASE \cup addr, data_len)>>)

\* `w >> n` on u32 (n < 32).
Shr(w, n) == {i - n : i \in {j \in w : j >= n}}

\* Register offsets of module proc_pio: the shared control word and the
\* register block of machine 0; the block of machine i is 0x20 further per
\* machine.
PROC_PIO_CTRL_OFFSET == 0
PROC_PIO_SM0_CLKDIV_OFFSET == 200

\* ctrl is the control word the device returns for the second read; the
\* snapshot is modelled by its `enabled` field (1 = true), the other fields
\* being copies of the words read.
read_hw_state_machine(index, ctrl, r1, r2) ==
    LET first == read_hw(ToU32(PROC_PIO_SM0_CLKDIV_OFFSET + index * 32), 32, r1)
        second == read_hw(ToU32(PROC_PIO_CTRL_OFFSET), 1, r2)
    IN  IF first.ret.err # "Ok" THEN first
        ELSE IF second.ret.err # "Ok"
        THEN Outcome(second.ret, first.wire \o second.wire)
        ELSE Outcome(OkVal(IF Shr(ctrl, index) # {} THEN 1 ELSE 0),
                     first.wire \o second.wire)

\* The pending call returns: the Result and the commands sent are recorded.
Returns(outcome) ==
    /\ ret' = outcome.ret
    /\ wire' = outcome.wire
    /\ UNCHANGED <<call, poolvars, smvars, cfgvars>>

\* In these calls c is the index of the StateMachine handle (self.index).
Init_(r) ==
    /\ Pending("init")
    /\ Returns(StateMachine_init(call.c, call.a, r))

SetPins(r) ==
    /\ Pending("set_pins")
    /\ Returns(set_pins(call.c, call.a, r))

SetPinsWithMask(r) ==
    /\ Pending("set_pins_with_mask")
    /\ Returns(set_pins_with_mask(call.c, call.a, call.b, r))

SetPindirsWithMask(r) ==
    /\ Pending("set_pindirs_with_mask")
    /\ Returns(set_pindirs_with_mask(call.c, call.a, call.b, r))

\* Here a and b are pin_base and pin_count, c is is_out, and the handle is
\* the one of machine 0.
SetConsecutivePindirs(r, overflow_checks) ==
    /\ Pending("set_consecutive_pindirs")
    /\ Returns(set_consecutive_pindirs(0, call.a, call.b, call.c = 1, r,
                                       overflow_checks))

\* Here a is the control word the device holds and c the handle's index.
ReadHwStateMachine(r1, r2) ==
    /\ Pending("read_hw_state_machine")
    /\ Returns(read_hw_state_machine(call.c, call.a, r1, r2))

SmSetEnabledMask(r) ==
    /\ Pending("sm_set_enabled_mask")
    /\ Returns(sm_set_enabled_mask(call.a, call.b, r))

GpioInit(r) ==
    /\ Pending("gpio_init")
    /\ Returns(gpio_init(call.a, r))

ReadHw(r) ==
    /\ Pending("read_hw")
    /\ Returns(read_hw(call.a, call.b, r))

WriteHw(r) ==
    /\ Pending("write_hw")
    /\ Returns(write_hw(call.a, call.b, r))

\* The inputs.  Pin words: none, single pins at both ends of the range and
\* just outside it, the whole range, and all 32 bits.
PinWords ==
    {{}, {0}, {GPIO_COUNT - 1}, {GPIO_COUNT}, {31}, {GPIO_COUNT - 1, GPIO_COUNT},
     GPIOS_MASK, U32Bits}
\* pin_base / pin_count: around 0, GPIO_COUNT and 32, and a large value.
PinCounts == Around(1) \cup Window(GPIO_COUNT) \cup Window(32) \cup {I32_MAX}
\* Control words: every combination of the four enable bits (bits 0..3),
\* and words with other bits set.
CtrlWords == (SUBSET (0..(SM_COUNT - 1))) \cup {{4}, {0, 8}, {31}}
HwAddrs == {{}, {2}, {2, 3, 7}, {GPIO_COUNT}, {31}}
Handles == 0..(SM_COUNT - 1)
CmdReplies == {-1, 0, 1}

CmdInit ==
    /\ PoolStart /\ SmStart /\ CfgStart
    /\ ret = NoRet
    /\ wire = <<>>
    /\ \/ call \in [op : {"init"}, a : Around(INSTRUCTION_COUNT), b : {0},
                    c : Handles]
       \/ call \in [op : {"set_pins"}, a : PinWords, b : {0}, c : Handles]
       \/ call \in [op : {"set_pins_with_mask", "set_pindirs_with_mask"},
                    a : PinWords, b : PinWords, c : Handles]
       \/ call \in [op : {"set_consecutive_pindirs"}, a : PinCounts,
                    b : PinCounts, c : Bools]
       \/ call \in [op : {"read_hw_state_machine"}, a : CtrlWords, b : {0},
                    c : Handles]
       \/ call \in [op : {"sm_set_enabled_mask"}, a : 0..MaxMask, b : Bools,
                    c : {0}]
       \/ call \in [op : {"gpio_init"}, a : Around(GPIO_COUNT), b : {0},
                    c : {0}]
       \/ call \in [op : {"read_hw", "write_hw"}, a : HwAddrs, b : 0..MaxWords,
                    c : {0}]

CmdNext ==
    \/ \E r \in CmdReplies : Init_(r)
    \/ \E r \in CmdReplies : SetPins(r)
    \/ \E r \in CmdReplies : SetPinsWithMask(r)
    \/ \E r \in CmdReplies : SetPindirsWithMask(r)
    \/ \E r \in CmdReplies, oc \in BOOLEAN : SetConsecutivePindirs(r, oc)
    \/ \E r1, r2 \in CmdReplies : ReadHwStateMachine(r1, r2)
    \/ \E r \in CmdReplies : SmSetEnabledMask(r)
    \/ \E r \in CmdReplies : GpioInit(r)
    \/ \E r \in CmdReplies : ReadHw(r)
    \/ \E r \in CmdReplies : WriteHw(r)

SpecCmd == CmdInit /\ [][CmdNext]_vars

(***************************************************************************)
(* Command dispatch alone: one result code through rp1_ioctl_mut_ptr       *)
(* (rp1pio.rs:36-48).                                                      *)
(***************************************************************************)

\* The result codes: everything near 0 and the named codes, and both ends
\* of i32.
ResultCodes ==
    ((-MaxCode)..MaxCode) \cup {I32_MIN, I32_MIN + 1, I32_MAX - 1, I32_MAX}

Rp1Ioctl ==
    /\ Pending("rp1_ioctl")
    /\ ret' = IoctlRet(call.a)
    /\ wire' = <<Cmd("ioctl", call.b, 0)>>
    /\ UNCHANGED <<call, poolvars, smvars, cfgvars>>

DispatchInit ==
    /\ PoolStart /\ SmStart /\ CfgStart
    /\ call \in [op : {"rp1_ioctl"}, a : ResultCodes, b : {0, 1}, c : {0}]
    /\ ret = NoRet
    /\ wire = <<>>

DispatchNext == Rp1Ioctl

SpecDispatch == DispatchInit /\ [][DispatchNext]_vars

(***************************************************************************)
(* Claims about the instance pool (checked under SpecPool).                *)
(***************************************************************************)

\* The thread owns a built Rp1PIO for entry i.
LiveHandle(t, i) == tpc[t] = "live" /\ tidx[t] = i

\* The thread owns a PIOInstance for entry i (from reserve to its drop).
HoldsReservation(t, i) ==
    tidx[t] = i /\ tpc[t] \in {"open", "live", "drop_lock", "drop_body"}

\* C1: in every reachable state of any interleaving of Rp1PIO::new and drop,
\* each pool entry has at most one live DeviceHandle (indeed at most one
\* PIOInstance), and its in-use flag is true whenever one exists.
C1_OneLiveHandlePerEntry ==
    \A i \in PoolIndexes :
        /\ Cardinality({t \in Threads : LiveHandle(t, i)}) <= 1
        /\ Cardinality({t \in Threads : HoldsReservation(t, i)}) <= 1
        /\ (\E t \in Threads : HoldsReservation(t, i)) => in_use[i]

\* C1 witness: one thread holds a live handle while another thread's
\* attempt on the same entry was refused.
C1_Witness ==
    \E t, u \in Threads :
        /\ t # u
        /\ LiveHandle(t, 0)
        /\ tpc[u] = "idle" /\ tidx[u] = 0 /\ tres[u] = "InstanceInUse"

\* C2: reserve(index) fails with BadPIOInstance for an invalid index and
\* with InstanceInUse for a reserved entry, leaving every in-use flag as it
\* was and releasing nothing; the drop of the holder clears the flag, and
\* reserve of a valid entry whose flag is clear succeeds and sets it.
C2_ReserveFailuresKeepFlags ==
    [][\A t \in Threads :
        /\ (tpc[t] = "reserve_body" /\ tpc'[t] # "reserve_body") =>
            /\ (tidx[t] \notin PoolIndexes) =>
                  /\ tres'[t] = "BadPIOInstance" /\ tpc'[t] = "idle"
                  /\ in_use' = in_use /\ released' = released
            /\ (tidx[t] \in PoolIndexes /\ in_use[tidx[t]]) =>
                  /\ tres'[t] = "InstanceInUse" /\ tpc'[t] = "idle"
                  /\ in_use' = in_use /\ released' = released
            /\ (tidx[t] \in PoolIndexes /\ ~in_use[tidx[t]]) =>
                  /\ tpc'[t] = "open"
                  /\ in_use' = [in_use EXCEPT ![tidx[t]] = TRUE]
        /\ (tpc[t] = "drop_body" /\ tpc'[t] # "drop_body") =>
              ~in_use'[tidx[t]]
      ]_vars

\* C2 witness: a thread holds a handle reserved after an earlier release of
\* the entry, while another thread's attempt was refused as InstanceInUse.
C2_Witness ==
    \E t, u \in Threads :
        /\ tpc[t] = "live" /\ tafter[t]
        /\ tres[u] = "InstanceInUse" /\ tidx[u] = tidx[t]

\* C3: when Rp1PIO::new returns the I/O error of a failed open, the entry's
\* in-use flag is false at that return; and a call whose reservation failed
\* never opened the device node.
C3_OpenFailureReleases ==
    [][\A t \in Threads :
        /\ (tpc[t] # "idle" /\ tpc'[t] = "idle" /\ tres'[t] = "IOError") =>
              /\ topened'[t] /\ ~tfd'[t]
              /\ ~in_use'[tidx[t]]
        /\ (tpc[t] = "open" /\ tpc'[t] # "open" /\ ~tfd'[t]) =>
              tres'[t] = "IOError"
        /\ (tres'[t] \in {"BadPIOInstance", "InstanceInUse"}) =>
              ~topened'[t]
      ]_vars

\* C3 witness: a call has returned the I/O error after reserving, and the
\* entry is free again.
C3_Witness ==
    \E t \in Threads :
        /\ tpc[t] = "idle" /\ tres[t] = "IOError" /\ topened[t]
        /\ released[tidx[t]] /\ ~in_use[tidx[t]]

(***************************************************************************)
(* Claims about state-machine claims (checked under SpecSm).               *)
(***************************************************************************)

\* The set bits of a mask in ascending order.
AscendingBits(mask) ==
    SelectSeq([k \in 1..16 |-> k - 1], LAMBDA i : Bit(mask, i))

\* C4: sm_claim_mask(mask) fails with BadSMMask, transmitting nothing, when
\* mask >= 2^sm_count; when a valid mask is accepted it returns exactly one
\* handle per set bit of mask, in ascending index order, and no other.
C4_ClaimMaskHandlesPerSetBit ==
    call.op = "sm_claim_mask" =>
        /\ call.a >= 2 ^ SM_COUNT =>
              ret.err = "BadSMMask" /\ wire = <<>>
        /\ (call.a < 2 ^ SM_COUNT /\ ret.err = "Ok") =>
              ret.handles = AscendingBits(call.a)

(***************************************************************************)
(* Claims about the program loader (checked under SpecProg).               *)
(***************************************************************************)

Done(ops) == call.op \in ops /\ ret # NoRet
AddOps == {"add_program_at_offset", "can_add_program_at_offset"}
Transmitted == wire # <<>>

\* C5: offset resolution in add_program_args, for every origin (absent or
\* 0..=255) and optional requested offset: none/none resolves to the auto
\* sentinel, none/f to f, o/none to o, o/o to o; a program with a fixed
\* origin is never sent as relocatable.  The resolved offset is read off
\* the transmitted command, or off OffsetTooLarge when that rejects it.
C5_OffsetResolution ==
    Done(AddOps) =>
        LET expected ==
                IF call.b = None /\ call.c = None THEN AUTO
                ELSE IF call.b = None THEN call.c
                ELSE call.b
            covered == call.b = None \/ call.c = None \/ call.c = call.b
        IN  covered =>
              /\ Transmitted => wire[1].y = expected
              /\ ret.err = "OffsetTooLarge" => ret.x = expected
              /\ ret.err # "OffsetOriginMismatch"

\* C6: with a fixed origin o, a requested offset f that is not exactly o is
\* refused with OffsetOriginMismatch and nothing is transmitted.
C6_MismatchRejected ==
    (Done(AddOps) /\ call.b # None /\ call.c # None /\ call.c # call.b) =>
        ret.err = "OffsetOriginMismatch" /\ ~Transmitted

\* The call resolves, by C5's rules, to offset off (below 128).
AtOffset(off) ==
    \/ call.b = None /\ call.c = off
    \/ call.b = off /\ call.c \in {None, off}

\* C7 as stated: for every offset in 0..capacity, length capacity fails
\* with TooManyInstructions, length capacity - offset passes validation,
\* and length capacity - offset + 1 fails with max = capacity - offset.
C7_CapacityAsStated ==
    Done(AddOps) =>
        \A off \in 0..(INSTRUCTION_COUNT - 1) : AtOffset(off) =>
            /\ call.a = INSTRUCTION_COUNT => ret.err = "TooManyInstructions"
            /\ call.a = INSTRUCTION_COUNT - off => Transmitted
            /\ call.a = INSTRUCTION_COUNT - off + 1 =>
                  ret = Err("TooManyInstructions", call.a,
                            INSTRUCTION_COUNT - off)

\* C7 amended: length capacity fails with TooManyInstructions at every
\* offset; for every offset in 1..capacity-1, length capacity - offset
\* passes validation and is transmitted with that length and offset; for
\* every offset in 0..capacity-1, length capacity - offset + 1 fails with
\* TooManyInstructions and nothing is transmitted, its max being
\* capacity - offset, except at offset 1, where the length is the capacity
\* and max is the capacity.
C7_Capacity ==
    Done(AddOps) =>
        \A off \in 0..(INSTRUCTION_COUNT - 1) : AtOffset(off) =>
            /\ call.a = INSTRUCTION_COUNT =>
                  ret.err = "TooManyInstructions" /\ ~Transmitted
            /\ (off >= 1 /\ call.a = INSTRUCTION_COUNT - off) =>
                  /\ Transmitted
                  /\ wire[1].x = call.a /\ wire[1].y = off
            /\ call.a = INSTRUCTION_COUNT - off + 1 =>
                  /\ ~Transmitted
                  /\ ret = Err("TooManyInstructions", call.a,
                               IF off = 1 THEN INSTRUCTION_COUNT
                               ELSE INSTRUCTION_COUNT - off)

\* C7 witness: a load that exactly fills the memory from a nonzero offset
\* has passed validation and was accepted by the device.
C7_Witness ==
    /\ Done({"add_program_at_offset"})
    /\ call.b = None /\ call.c = 7 /\ call.a = INSTRUCTION_COUNT - 7
    /\ Transmitted /\ ret.err = "Ok"

\* C8: every offset the caller supplies that is >= capacity (32..=65535) is
\* refused with OffsetTooLarge before anything is transmitted; the auto
\* sentinel is sent only for an absent offset with an absent origin.
C8_SuppliedOffsetTooLarge ==
    Done(AddOps) =>
        /\ (call.c # None /\ call.c >= INSTRUCTION_COUNT) =>
              ret.err = "OffsetTooLarge" /\ ~Transmitted
        /\ (Transmitted /\ wire[1].y = AUTO) =>
              call.b = None /\ call.c = None

\* C9: remove_program(program, offset) returns OffsetTooLarge or
\* TooManyInstructions exactly when add_program_at_offset's validation of
\* a relocatable program of that length at that offset does, never panics
\* or wraps in its u16 budget, and transmits only when the checks pass.
C9_RemoveChecksLikeAdd ==
    Done({"remove_program"}) =>
        LET bounds == {"OffsetTooLarge", "TooManyInstructions"}
            add == add_program_args(PioProgram_new(call.a, None), call.c)
        IN  /\ ret.err # "panic"
            /\ ret.err = "TooManyInstructions" => ret.y <= INSTRUCTION_COUNT
            /\ (ret.err \in bounds) <=> (add.err \in bounds)
            /\ Transmitted <=> add.err = "Ok"

(***************************************************************************)
(* Claims about the clock divider (checked under SpecClk).                 *)
(***************************************************************************)

\* C10: for every div in [1.0, 65536.0] the result is a 16-bit div_int and
\* an 8-bit frac with div_int + frac/256 = div truncated to 1/256; 0.0
\* gives {0, 0}; every other div fails with BadDiv.
C10_ClkDivRoundTrip ==
    Done({"ClkDiv::try_from"}) =>
        LET d == call.a IN
        /\ d = 0 => (ret.err = "Ok" /\ ret.x = 0 /\ ret.y = 0)
        /\ (d >= 1 * ClkUnit /\ d <= MAX_DIV * ClkUnit) =>
              /\ ret.err = "Ok"
              /\ ret.x \in 0..U16_MAX /\ ret.y \in 0..255
              /\ ret.x * 256 + ret.y = d \div (ClkUnit \div 256)
        /\ (d # 0 /\ (d < 1 * ClkUnit \/ d > MAX_DIV * ClkUnit)) =>
              ret.err = "BadDiv"


(***************************************************************************)
(* Claims about the configuration registers (checked under SpecCfg).       *)
(***************************************************************************)

CfgDone(ops) == call.op \in ops /\ cfgret # NoCfgRet

\* Field `field` of word w holds the value v.
Holds(w, field, v) == w \cap BITS(field) = Shl(ToU32(v), LSB(field))

\* What every reading of the default shares: divisor 1.0 (integer part 1,
\* fraction 0), wrap target 0, wrap top 31, and both threshold fields 0,
\* the encoding of 32.
DefaultDivWrapThresholds(c) ==
    /\ Holds(c.clkdiv, "CLKDIV_INT", 1)
    /\ Holds(c.clkdiv, "CLKDIV_FRAC", 0)
    /\ Holds(c.execctrl, "EXECCTRL_WRAP_BOTTOM", 0)
    /\ Holds(c.execctrl, "EXECCTRL_WRAP_TOP", 31)
    /\ Holds(c.shiftctrl, "SHIFTCTRL_PUSH_THRESH", 32 % 32)
    /\ Holds(c.shiftctrl, "SHIFTCTRL_PULL_THRESH", 32 % 32)

\* C11 as stated: SmConfig::default() encodes clock divisor 1.0, wrap target
\* 0 with wrap top 31, and autopush and autopull both enabled with push and
\* pull thresholds of 32.
C11_DefaultAsStated ==
    CfgDone({"default"}) =>
        /\ cfgret.err = "Ok"
        /\ DefaultDivWrapThresholds(Unwrap(cfgret))
        /\ Holds(Unwrap(cfgret).shiftctrl, "SHIFTCTRL_AUTOPUSH", 1)
        /\ Holds(Unwrap(cfgret).shiftctrl, "SHIFTCTRL_AUTOPULL", 1)

\* C11: SmConfig::default() encodes clock divisor 1.0, wrap target 0 with
\* wrap top 31, push and pull thresholds of 32, autopush and autopull both
\* disabled, both shift directions right, and every other bit zero.
C11_Default ==
    CfgDone({"default"}) =>
        /\ cfgret.err = "Ok"
        /\ DefaultDivWrapThresholds(Unwrap(cfgret))
        /\ Holds(Unwrap(cfgret).shiftctrl, "SHIFTCTRL_AUTOPUSH", 0)
        /\ Holds(Unwrap(cfgret).shiftctrl, "SHIFTCTRL_AUTOPULL", 0)
        /\ Holds(Unwrap(cfgret).shiftctrl, "SHIFTCTRL_IN_SHIFTDIR", 1)
        /\ Holds(Unwrap(cfgret).shiftctrl, "SHIFTCTRL_OUT_SHIFTDIR", 1)
        /\ Unwrap(cfgret).clkdiv = BITS("CLKDIV_INT") \cap {LSB("CLKDIV_INT")}
        /\ Unwrap(cfgret).execctrl = BITS("EXECCTRL_WRAP_TOP")
        /\ Unwrap(cfgret).shiftctrl =
              BITS("SHIFTCTRL_IN_SHIFTDIR") \cup BITS("SHIFTCTRL_OUT_SHIFTDIR")
        /\ Unwrap(cfgret).pinctrl = {}

C11_Witness ==
    /\ CfgDone({"default"})
    /\ cfgret.err = "Ok"
    /\ Unwrap(cfgret).shiftctrl # {}

\* The fields each setter is designated to write, per word.
Designated(op) ==
    CASE op = "set_out_pins" ->
            [ZeroConfig EXCEPT !.pinctrl =
                BITS("PINCTRL_OUT_BASE") \cup BITS("PINCTRL_OUT_COUNT")]
      [] op = "set_set_pins" ->
            [ZeroConfig EXCEPT !.pinctrl =
                BITS("PINCTRL_SET_BASE") \cup BITS("PINCTRL_SET_COUNT")]
      [] op = "set_in_pins" ->
            [ZeroConfig EXCEPT !.pinctrl = BITS("PINCTRL_IN_BASE")]
      [] op = "set_sideset_pins" ->
            [ZeroConfig EXCEPT !.pinctrl = BITS("PINCTRL_SIDESET_BASE")]
      [] op = "set_sideset" ->
            [ZeroConfig EXCEPT
                !.pinctrl = BITS("PINCTRL_SIDESET_COUNT"),
                !.execctrl =
                    BITS("EXECCTRL_SIDE_EN") \cup BITS("EXECCTRL_SIDE_PINDIR")]
      [] op \in {"set_clkdiv_int_frac", "set_clkdiv"} ->
            [ZeroConfig EXCEPT !.clkdiv =
                BITS("CLKDIV_INT") \cup BITS("CLKDIV_FRAC")]
      [] op = "set_wrap" ->
            [ZeroConfig EXCEPT !.execctrl =
                BITS("EXECCTRL_WRAP_TOP") \cup BITS("EXECCTRL_WRAP_BOTTOM")]
      [] op = "set_jmp_pin" ->
            [ZeroConfig EXCEPT !.execctrl = BITS("EXECCTRL_JMP_PIN")]
      [] op = "set_in_shift" ->
            [ZeroConfig EXCEPT !.shiftctrl =
                BITS("SHIFTCTRL_IN_SHIFTDIR") \cup BITS("SHIFTCTRL_AUTOPUSH")
                    \cup BITS("SHIFTCTRL_PUSH_THRESH")]
      [] op = "set_out_shift" ->
            [ZeroConfig EXCEPT !.shiftctrl =
                BITS("SHIFTCTRL_OUT_SHIFTDIR") \cup BITS("SHIFTCTRL_AUTOPULL")
                    \cup BITS("SHIFTCTRL_PULL_THRESH")]
      [] op = "set_fifo_join" ->
            [ZeroConfig EXCEPT !.shiftctrl =
                BITS("SHIFTCTRL_FJOIN_TX") \cup BITS("SHIFTCTRL_FJOIN_RX")]
      [] op = "set_out_special" ->
            [ZeroConfig EXCEPT !.execctrl =
                BITS("EXECCTRL_OUT_STICKY") \cup BITS("EXECCTRL_INLINE_OUT_EN")
                    \cup BITS("EXECCTRL_OUT_EN_SEL")]
      [] op = "set_mov_status" ->
            [ZeroConfig EXCEPT !.execctrl =
                BITS("EXECCTRL_STATUS_SEL") \cup BITS("EXECCTRL_STATUS_N")]

Setters ==
    {"set_out_pins", "set_set_pins", "set_in_pins", "set_sideset_pins",
     "set_sideset", "set_clkdiv_int_frac", "set_clkdiv", "set_wrap",
     "set_jmp_pin", "set_in_shift", "set_out_shift", "set_fifo_join",
     "set_out_special", "set_mov_status"}

Words == {"clkdiv", "execctrl", "shiftctrl", "pinctrl"}

\* C12: for every register set and every setter call that returns Ok, with
\* any argument values the setter accepts, every bit of the four words that
\* lies outside the bitfields designated for that setter is unchanged.
C12_FieldIsolation ==
    (CfgDone(Setters) /\ cfgret.err = "Ok") =>
        \A w \in Words :
            Unwrap(cfgret)[w] \ Designated(call.op)[w]
                = config[w] \ Designated(call.op)[w]

\* The stated constraint of each setter on the arguments of call k; the
\* setters with no stated constraint accept everything.
Accepts(k) ==
    CASE k.op \in {"set_out_pins", "set_in_pins", "set_sideset_pins",
                   "set_jmp_pin"} -> k.a < 28
      [] k.op = "set_set_pins" -> k.a < 28 /\ k.b <= 5
      [] k.op = "set_wrap" -> k.a < 32 /\ k.b < 32
      [] k.op \in {"set_in_shift", "set_out_shift"} -> k.c <= 32
      [] k.op = "set_sideset" -> k.a <= 5 /\ (k.b = 1 => k.a >= 1)
      [] OTHER -> TRUE

\* Parameter `param` of call k is one of the setter's own and violates its
\* constraint.
Violates(k, param) ==
    CASE k.op = "set_out_pins" -> param = "out_base" /\ k.a >= 28
      [] k.op = "set_in_pins" -> param = "in_base" /\ k.a >= 28
      [] k.op = "set_sideset_pins" -> param = "sideset_base" /\ k.a >= 28
      [] k.op = "set_jmp_pin" -> param = "pin" /\ k.a >= 28
      [] k.op = "set_set_pins" ->
            \/ param = "set_base" /\ k.a >= 28
            \/ param = "set_count" /\ k.b > 5
      [] k.op = "set_wrap" ->
            \/ param = "wrap_target" /\ k.a >= 32
            \/ param = "wrap" /\ k.b >= 32
      [] k.op = "set_in_shift" -> param = "push_threshold" /\ k.c > 32
      [] k.op = "set_out_shift" -> param = "pull_threshold" /\ k.c > 32
      [] k.op = "set_sideset" ->
            \/ param = "bit_count" /\ k.a > 5
            \/ param = "option,bit_count" /\ k.b = 1 /\ k.a < 1
      [] OTHER -> FALSE

ShiftCalls(op) == {j \in CfgCalls : j.op = op /\ Accepts(j)}

OtherShift(op) ==
    IF op = "set_in_shift" THEN "set_out_shift" ELSE "set_in_shift"

\* C14: for every threshold in 0..=32, set_in_shift / set_out_shift store
\* threshold mod 32 in the push / pull threshold field, store shift_right
\* and auto in their own single bits, and applying set_in_shift and
\* set_out_shift to the same register set gives the same result in either
\* order.
C14_ShiftThresholdsCommute ==
    /\ (CfgDone({"set_in_shift"}) /\ call.c \in 0..32) =>
          /\ cfgret.err = "Ok"
          /\ Holds(Unwrap(cfgret).shiftctrl, "SHIFTCTRL_PUSH_THRESH",
                   call.c % 32)
          /\ Holds(Unwrap(cfgret).shiftctrl, "SHIFTCTRL_IN_SHIFTDIR", call.a)
          /\ Holds(Unwrap(cfgret).shiftctrl, "SHIFTCTRL_AUTOPUSH", call.b)
    /\ (CfgDone({"set_out_shift"}) /\ call.c \in 0..32) =>
          /\ cfgret.err = "Ok"
          /\ Holds(Unwrap(cfgret).shiftctrl, "SHIFTCTRL_PULL_THRESH",
                   call.c % 32)
          /\ Holds(Unwrap(cfgret).shiftctrl, "SHIFTCTRL_OUT_SHIFTDIR", call.a)
          /\ Holds(Unwrap(cfgret).shiftctrl, "SHIFTCTRL_AUTOPULL", call.b)
    /\ (CfgDone({"set_in_shift", "set_out_shift"}) /\ cfgret.err = "Ok") =>
          \A j \in ShiftCalls(OtherShift(call.op)) :
              Apply(Unwrap(cfgret), j) = Apply(Unwrap(Apply(config, j)), call)

C14_Witness ==
    /\ CfgDone({"set_in_shift"})
    /\ call.c = 32
    /\ cfgret.err = "Ok"
    /\ Holds(config.shiftctrl, "SHIFTCTRL_PUSH_THRESH", 31)
    /\ Holds(Unwrap(cfgret).shiftctrl, "SHIFTCTRL_PUSH_THRESH", 0)

(***************************************************************************)
(* Claims about checked commands (SpecCmd) and dispatch (SpecDispatch).    *)
(***************************************************************************)

\* The bits of a u32 outside GPIOS_MASK (bits 28..31).
OutOfRange(w) == w \ GPIOS_MASK

\* C15: set_pindirs_with_mask(dirs, mask) fails exactly when dirs or mask has
\* a bit outside GPIOS_MASK: with BadPinDirs(dirs & ~GPIOS_MASK) when dirs
\* is out of range, otherwise with BadPinMask(mask & ~GPIOS_MASK); nothing is
\* transmitted on failure, and on success the one command sent carries dirs
\* and mask unchanged together with this handle's index.
C15_PindirsWithMask ==
    Done({"set_pindirs_with_mask"}) =>
        LET dirs == call.a
            mask == call.b
        IN  /\ OutOfRange(dirs) # {} =>
                  /\ ret = Err("BadPinDirs", OutOfRange(dirs), 0)
                  /\ wire = <<>>
            /\ (OutOfRange(dirs) = {} /\ OutOfRange(mask) # {}) =>
                  /\ ret = Err("BadPinMask", OutOfRange(mask), 0)
                  /\ wire = <<>>
            /\ (OutOfRange(dirs) = {} /\ OutOfRange(mask) = {}) =>
                  /\ ret.err \notin {"BadPinDirs", "BadPinMask"}
                  /\ wire = <<Cmd("PIO_IOC_SM_SET_PINDIRS", call.c,
                                  <<dirs, mask>>)>>

C15_Witness ==
    /\ Done({"set_pindirs_with_mask"})
    /\ OutOfRange(call.a) # {} /\ OutOfRange(call.b) # {}
    /\ call.a # call.b
    /\ ret.err = "BadPinDirs"

\* C16: dispatch classifies every signed 32-bit result code into exactly one
\* outcome: -EREMOTEIO gives RemoteIOErr, -ETIMEDOUT gives TimedOut, -1 gives
\* a wrapped I/O error, every other negative code r gives Unknown(r), and
\* every non-negative code r gives success with value r, whatever the
\* request was.
C16_DispatchClassification ==
    Done({"rp1_ioctl"}) =>
        LET r == call.a IN
        /\ r \in I32_MIN..I32_MAX
        /\ r = NEG_EREMOTEIO => ret = Err("RemoteIOErr", 0, 0)
        /\ r = NEG_ETIMEDOUT => ret = Err("TimedOut", 0, 0)
        /\ r = -1 => ret = Err("IOError", 0, 0)
        /\ (r < 0 /\ r \notin {NEG_EREMOTEIO, NEG_ETIMEDOUT, -1}) =>
              ret = Err("Unknown", r, 0)
        /\ r >= 0 => ret = OkVal(r)

C16_Witness ==
    /\ Done({"rp1_ioctl"})
    /\ call.a = I32_MIN
    /\ ret = Err("Unknown", I32_MIN, 0)

\* The client-checkable arguments of a transmitted command are in range.
InRange(m) ==
    CASE m.cmd = "PIO_IOC_SM_INIT" ->
            m.x < SM_COUNT /\ m.y < INSTRUCTION_COUNT
      [] m.cmd = "PIO_IOC_SM_SET_ENABLED" -> m.x < 2 ^ SM_COUNT
      [] m.cmd = "PIO_IOC_GPIO_INIT" -> m.x < GPIO_COUNT
      [] m.cmd \in {"PIO_IOC_SM_SET_PINS", "PIO_IOC_SM_SET_PINDIRS"} ->
            /\ m.x < SM_COUNT
            /\ OutOfRange(m.y[1]) = {}
            /\ OutOfRange(m.y[2]) = {}
      [] OTHER -> TRUE

\* C17: no command reaches the command channel with a client-checkable
\* argument out of range (state-machine index and mask, initial_pc, GPIO
\* index, and the pin value / direction masks of set_pins,
\* set_pins_with_mask and set_pindirs_with_mask); a call that would send one
\* returns an error instead.
C17_NoOutOfRangeCommand ==
    /\ \A k \in DOMAIN wire : InRange(wire[k])
    /\ (Done({"set_pins", "set_pins_with_mask"})
            /\ (OutOfRange(call.a) # {}
                  \/ (call.op = "set_pins_with_mask" /\ OutOfRange(call.b) # {})))
          => (wire = <<>> /\ ret.err \notin {"Ok", "pending"})

\* C18: for both read_hw and write_hw the raw register access command
\* carries addr = 0xF0000000 | addr and a len equal to the byte length of
\* the buffer, 4 times the number of 32-bit words in the slice.
C18_HwAccessLenInBytes ==
    Done({"read_hw", "write_hw"}) =>
        /\ Len(wire) = 1
        /\ wire[1].x = HW_BASE \cup call.a
        /\ wire[1].y = 4 * call.b

(***************************************************************************)
(* Claims about live handles and teardown (SpecSm, SpecPool).              *)
(***************************************************************************)

\* C19: after any sequence of sm_claim, sm_claim_mask, sm_claim_unused and
\* unclaim, every live StateMachine handle designates a machine the device
\* has claimed, and no two live handles have the same index.
C19_LiveHandlesAreClaimed ==
    \A sm \in DOMAIN held :
        /\ held[sm] <= 1
        /\ held[sm] > 0 => sm \in dev_claimed

\* The command channels open to pool entry i.
OpenChannels(i) == {t \in Threads : tfd[t] /\ tidx[t] = i}

\* C20: the command channel is closed before the in-use flag is cleared, so
\* in no interleaving of a drop and Rp1PIO::new on the same index are two
\* command channels to the same instance open at the same time.
C20_OneOpenChannelPerInstance ==
    \A i \in PoolIndexes :
        /\ Cardinality(OpenChannels(i)) <= 1
        /\ OpenChannels(i) # {} => in_use[i]


\* Thread t is inside PIOInstance::reserve / inside Drop for PIOInstance.
InReserve(t) == tpc[t] \in {"reserve_lock", "reserve_body"}
InRelease(t) == tpc[t] \in {"drop_lock", "drop_body"}

\* The lock is held only by a thread in the locked block of reserve or of
\* drop, never by one opening (or holding, or closing) the command channel.
LockOnlyAroundFlags ==
    \A t \in Threads :
        lock = t => tpc[t] \in {"reserve_body", "drop_body"}

C22_ConsecutivePindirs ==
    Done({"set_consecutive_pindirs"}) =>
        LET base == call.a
            count == call.b
            fits == base <= GPIO_COUNT /\ count <= GPIO_COUNT - base
            mask == {i \in U32Bits : i >= base /\ i - base < count}
        IN  /\ ret.err # "panic"
            /\ fits =>
                  wire = <<Cmd("PIO_IOC_SM_SET_PINDIRS", 0,
                               <<IF call.c = 1 THEN mask ELSE {}, mask>>)>>
            /\ ~fits =>
                  /\ ret.err \in {"BadPinDirs", "BadPinMask"}
                  /\ wire = <<>>


\* C23: in the snapshot returned by read_hw_state_machine for the handle
\* with index i, enabled is true exactly when bit i of the control word read
\* from the device is set, whatever the other bits of the word are.
C23_EnabledIsOwnBit ==
    (Done({"read_hw_state_machine"}) /\ ret.err = "Ok") =>
        (ret.x = 1 <=> call.c \in call.a)

=============================================================================
